---- MODULE Spec2Model ----
(***************************************************************************)
(* Model of the Scala (.scl) file parser of scala-tune (src/lib.rs).       *)
(*                                                                         *)
(* Text is a sequence of one-character strings.  Every parser takes the    *)
(* remaining input i and yields a record: [k |-> "Ok", rest, val] on       *)
(* success, or [k |-> "Error"], [k |-> "Incomplete"], [k |-> "Failure"],   *)
(* the three nom::Err kinds.  All the nom parsers the source imports are   *)
(* the *streaming* ones: running into the end of input is Incomplete.      *)
(*                                                                         *)
(* A Cents value is kept as an exact decimal [m, e] standing for m * 10^e, *)
(* with m not divisible by 10.  The inputs of the model hold at most a few *)
(* significant digits, where decimal -> f32 is injective, so equality of   *)
(* the decimals is equality of the f32 values.  No input of the model      *)
(* holds the letters of "nan", "inf" or "infinity": those alternatives of  *)
(* nom's float never match here.  Numbers of the model have a handful of   *)
(* digits, far from the 20 digits of u64::MAX, so the checked_mul and      *)
(* checked_add of nom's u64 never overflow here.                           *)
(***************************************************************************)
EXTENDS Integers, Sequences, FiniteSets, TLC

VARIABLES lines, terminated, i, pc, result, description, note_count, notes,
          noteStarts, countEnd, edited, suffix, res0, res1

vars == <<lines, terminated, i, pc, result, description, note_count, notes,
          noteStarts, countEnd, edited, suffix, res0, res1>>

(***************************************************************************)
(* Bounds of the model.                                                    *)
(***************************************************************************)
MaxLines == 4
MaxEditLines == 3
MaxInserted == 1
MaxSuffix == 2

NL == "\n"

(***************************************************************************)
(* nom::IResult                                                            *)
(***************************************************************************)
OkR(rest, val) == [k |-> "Ok", rest |-> rest, val |-> val]
ErrR(kind) == [k |-> kind]

IsDigit(c) == c \in {"0", "1", "2", "3", "4", "5", "6", "7", "8", "9"}

DigitVal(c) ==
  CASE c = "0" -> 0 [] c = "1" -> 1 [] c = "2" -> 2 [] c = "3" -> 3
    [] c = "4" -> 4 [] c = "5" -> 5 [] c = "6" -> 6 [] c = "7" -> 7
    [] c = "8" -> 8 [] c = "9" -> 9

IsSpace(c) == c \in {" ", "\t"}

IsWhitespace(c) == c \in {" ", "\t", "\r", "\n"}

Drop(s, n) == SubSeq(s, n + 1, Len(s))

(* the number of leading digits, spaces, characters before '\n' of s *)
RECURSIVE SpanDigits(_)
SpanDigits(s) ==
  IF s = <<>> \/ ~IsDigit(Head(s)) THEN 0 ELSE 1 + SpanDigits(Tail(s))

RECURSIVE SpanSpaces(_)
SpanSpaces(s) ==
  IF s = <<>> \/ ~IsSpace(Head(s)) THEN 0 ELSE 1 + SpanSpaces(Tail(s))

RECURSIVE SpanLine(_)
SpanLine(s) ==
  IF s = <<>> \/ Head(s) = NL THEN 0 ELSE 1 + SpanLine(Tail(s))

(* the ? operator: go on with the result of a parser, or hand its error on *)
AndThen(r, f(_)) == IF r.k = "Ok" THEN f(r) ELSE r

(* nom::branch::alt: only an Error of the first lets the second run *)
alt(a, b) == IF a.k = "Error" THEN b ELSE a

(* nom::combinator::opt: an Error becomes "nothing matched" *)
opt(r, inp) == IF r.k = "Error" THEN OkR(inp, <<>>) ELSE r

(* nom::combinator::cut: an Error becomes a Failure *)
cut(r) == IF r.k = "Error" THEN ErrR("Failure") ELSE r

(* a streaming split after the first n characters: needs one more in sight *)
SplitAt(inp, n) ==
  IF n = Len(inp) THEN ErrR("Incomplete")
  ELSE OkR(Drop(inp, n), SubSeq(inp, 1, n))

(* nom::character::streaming::char, for any character of the set S *)
one_of(S, inp) ==
  IF inp = <<>> THEN ErrR("Incomplete")
  ELSE IF Head(inp) \in S THEN OkR(Tail(inp), <<Head(inp)>>)
  ELSE ErrR("Error")

(* nom::bytes::streaming::tag, for the one-character tags of the source *)
tag(t, inp) == one_of({t}, inp)

(* nom::bytes::streaming::take_until, for the one-character pattern *)
take_until(t, inp) == SplitAt(inp, SpanLine(inp))

(* nom::character::streaming::newline *)
newline(inp) == tag(NL, inp)

(* nom::character::streaming::space0 *)
space0(inp) == SplitAt(inp, SpanSpaces(inp))

(* nom::character::streaming::digit1 *)
digit1(inp) ==
  AndThen(SplitAt(inp, SpanDigits(inp)),
          LAMBDA d : IF d.val = <<>> THEN ErrR("Error") ELSE d)

(* str::trim *)
RECURSIVE TrimStart(_)
TrimStart(s) ==
  IF s # <<>> /\ IsWhitespace(Head(s)) THEN TrimStart(Tail(s)) ELSE s

RECURSIVE TrimEnd(_)
TrimEnd(s) ==
  IF s # <<>> /\ IsWhitespace(s[Len(s)])
  THEN TrimEnd(SubSeq(s, 1, Len(s) - 1)) ELSE s

trim(s) == TrimEnd(TrimStart(s))

take_line(inp) ==
  AndThen(take_until(NL, inp), LAMBDA line :
  AndThen(opt(newline(line.rest), line.rest), LAMBDA n :
  OkR(n.rest, trim(line.val))))

comment(inp) ==
  AndThen(tag("!", inp), LAMBDA t : take_line(t.rest))

(* nom::multi::many0: r is the parser's result on inp, more parses the     *)
(* rest.  An Error ends the repetition, any other failure is handed on, a  *)
(* success that consumed nothing is an Error.                              *)
many0(r, inp, more(_)) ==
  IF r.k = "Error" THEN OkR(inp, <<>>)
  ELSE IF r.k # "Ok" THEN r
  ELSE IF Len(r.rest) = Len(inp) THEN ErrR("Error")
  ELSE AndThen(more(r.rest), LAMBDA m : OkR(m.rest, <<r.val>> \o m.val))

(* a comment skipper that gives up after one comment line *)
many_comments_one(inp) ==
  many0(comment(inp), inp, LAMBDA rest : OkR(rest, <<>>))

RECURSIVE many_comments(_)
many_comments(inp) == many0(comment(inp), inp, many_comments)

RECURSIVE DigitsVal(_)
DigitsVal(s) ==
  IF s = <<>> THEN 0
  ELSE DigitsVal(SubSeq(s, 1, Len(s) - 1)) * 10 + DigitVal(s[Len(s)])

(* nom::character::streaming::u64: the digits up to the first other       *)
(* character; Incomplete when there is none, Error when no digit comes     *)
(* first                                                                   *)
u64(inp) ==
  AndThen(digit1(inp), LAMBDA d : OkR(d.rest, DigitsVal(d.val)))

(* a count reader that takes a missing number for 0 *)
num_u64_default(inp) ==
  alt(AndThen(u64(inp), LAMBDA r : OkR(inp, r.val)), OkR(inp, 0))

(* the number is read, the input is handed back as it came in *)
num_u64(inp) ==
  AndThen(u64(inp), LAMBDA r : OkR(inp, r.val))

(* alt((char('+'), char('-'))) of nom's recognize_float *)
sign(inp) == one_of({"+", "-"}, inp)

(* pair(char('.'), opt(digit1)) of recognize_float *)
fraction(inp) ==
  AndThen(tag(".", inp), LAMBDA dot : opt(digit1(dot.rest), dot.rest))

(* the mantissa of recognize_float: digits [. [digits]]  |  . digits *)
mantissa(inp) ==
  alt(AndThen(digit1(inp), LAMBDA d :
      AndThen(opt(fraction(d.rest), d.rest), LAMBDA f :
      OkR(f.rest, [int |-> d.val, frac |-> f.val]))),
      AndThen(tag(".", inp), LAMBDA dot :
      AndThen(digit1(dot.rest), LAMBDA f :
      OkR(f.rest, [int |-> <<>>, frac |-> f.val]))))

Signed(sg, n) == IF sg = <<"-">> THEN 0 - n ELSE n

(* the exponent of recognize_float: (e|E) [sign] cut(digits) *)
exponent(inp) ==
  AndThen(one_of({"e", "E"}, inp), LAMBDA c :
  AndThen(opt(sign(c.rest), c.rest), LAMBDA sg :
  AndThen(cut(digit1(sg.rest)), LAMBDA d :
  OkR(d.rest, <<Signed(sg.val, DigitsVal(d.val))>>))))

(* m * 10^e with every factor 10 of m moved into e; zero is [0, 0] *)
RECURSIVE Decimal(_, _)
Decimal(m, e) ==
  IF m = 0 THEN [m |-> 0, e |-> 0]
  ELSE IF m % 10 = 0 THEN Decimal(m \div 10, e + 1)
  ELSE [m |-> m, e |-> e]

(* str::parse::<f32> on the text recognize_float matched *)
parse_to(sg, b, x) ==
  Decimal(Signed(sg, DigitsVal(b.int \o b.frac)),
          (IF x = <<>> THEN 0 ELSE x[1]) - Len(b.frac))

(* nom::number::streaming::float *)
float(inp) ==
  AndThen(opt(sign(inp), inp), LAMBDA sg :
  AndThen(mantissa(sg.rest), LAMBDA b :
  AndThen(opt(exponent(b.rest), b.rest), LAMBDA x :
  OkR(x.rest, parse_to(sg.val, b.val, x.val)))))

Ratio(n, d) == [kind |-> "Ratio", numerator |-> n, denominator |-> d]

Cents(f) == [kind |-> "Cents", value |-> f]

note_cents(inp) ==
  AndThen(float(inp), LAMBDA f :
  AndThen(take_line(f.rest), LAMBDA l :
  OkR(l.rest, Cents(f.val))))

note_ratio(inp) ==
  AndThen(num_u64(inp), LAMBDA numerator :
  AndThen(tag("/", numerator.rest), LAMBDA t :
  AndThen(num_u64(t.rest), LAMBDA denominator :
  OkR(denominator.rest, Ratio(numerator.val, denominator.val)))))

note(inp) ==
  AndThen(opt(space0(inp), inp), LAMBDA s :
  alt(note_cents(s.rest), note_ratio(s.rest)))

(* tuple((many_comments, note)); val.at is the input left when note starts *)
comments_note(inp) ==
  AndThen(many_comments(inp), LAMBDA m :
  AndThen(note(m.rest), LAMBDA n :
  OkR(n.rest, [note |-> n.val, at |-> m.rest])))

(* nom::multi::count(tuple((many_comments, note)), n), mapped to the notes *)
RECURSIVE count(_, _)
count(n, inp) ==
  IF n = 0 THEN OkR(inp, <<>>)
  ELSE AndThen(comments_note(inp), LAMBDA r :
       AndThen(count(n - 1, r.rest), LAMBDA c :
       OkR(c.rest, <<r.val.note>> \o c.val)))

(* tuple((many_comments, take_line)) *)
read_description(inp) ==
  AndThen(many_comments(inp), LAMBDA m : take_line(m.rest))

(* tuple((many_comments, space0, num_u64)) *)
read_count(inp) ==
  AndThen(many_comments(inp), LAMBDA m :
  AndThen(space0(m.rest), LAMBDA s : num_u64(s.rest)))

parse_scala(scala_text) ==
  AndThen(read_description(scala_text), LAMBDA d :
  AndThen(read_count(d.rest), LAMBDA c :
  AndThen(count(c.val, c.rest), LAMBDA n :
  OkR(n.rest, [description |-> d.val, notes |-> n.val]))))

(* the match of from_str: Ok(s) => Ok(s.1), Err(e) => Err(..) *)
to_result(res) ==
  IF res.k = "Ok" THEN [ok |-> TRUE, scale |-> res.val] ELSE [ok |-> FALSE]

(* an entry point that rejects input left over after the notes *)
from_str_all_consuming(input) ==
  to_result(AndThen(parse_scala(input), LAMBDA res :
            IF res.rest = <<>> THEN res ELSE ErrR("Error")))

from_str(input) == to_result(parse_scala(input))

(***************************************************************************)
(* The inputs of the model: up to MaxLines lines, each one of LineForms,   *)
(* every line '\n'-terminated except, when ~terminated, the last one.      *)
(***************************************************************************)
CommentLine == <<"!", "c">>

LineForms ==
  { CommentLine, <<"a", "b", "c">>, <<"0">>, <<"2">>, <<"3">>,
    <<"3", "/", "2">>, <<"-", "3", "/", "2">>, <<"1", ".", "5">>,
    <<" ", "2">> }

SeqsUpTo(S, n) == UNION { [1..k -> S] : k \in 0..n }

RECURSIVE Flatten(_, _)
Flatten(ls, term) ==
  IF ls = <<>> THEN <<>>
  ELSE IF Len(ls) = 1 THEN (IF term THEN Append(ls[1], NL) ELSE ls[1])
  ELSE Append(ls[1], NL) \o Flatten(Tail(ls), term)

Text == Flatten(lines, terminated)

(* the offset in Text at which the remaining input r starts *)
Pos(r) == Len(Text) - Len(r)

InputLines(n) == SeqsUpTo(LineForms, n)

(***************************************************************************)
(* Spec: one call of Scale::from_str, stepped through the states of the    *)
(* document parser.  i is the input left, as in parse_scala.  noteStarts   *)
(* records the offset at which each call of note began and countEnd the    *)
(* offset just after the count literal that nom's u64 matched.             *)
(***************************************************************************)
Idle ==
  /\ edited = <<>>
  /\ suffix = <<>>
  /\ res0 = <<>>
  /\ res1 = <<>>

Start ==
  /\ i = Text
  /\ pc = "skip_leading_comments"
  /\ result = "none"
  /\ description = <<>>
  /\ note_count = 0
  /\ notes = <<>>
  /\ noteStarts = <<>>
  /\ countEnd = 0

Init ==
  /\ lines \in InputLines(MaxLines)
  /\ terminated \in BOOLEAN
  /\ Start
  /\ Idle

Fail ==
  /\ result' = "Err"
  /\ UNCHANGED <<i, pc, description, note_count, notes, noteStarts, countEnd>>

SkipLeadingComments ==
  /\ pc = "skip_leading_comments" /\ result = "none"
  /\ LET r == many_comments(i) IN
     IF r.k = "Ok"
     THEN /\ i' = r.rest
          /\ pc' = "read_description"
          /\ UNCHANGED <<result, description, note_count, notes, noteStarts,
                         countEnd>>
     ELSE Fail
  /\ UNCHANGED <<lines, terminated, edited, suffix, res0, res1>>

ReadDescription ==
  /\ pc = "read_description" /\ result = "none"
  /\ LET r == take_line(i) IN
     IF r.k = "Ok"
     THEN /\ i' = r.rest
          /\ description' = r.val
          /\ pc' = "skip_comments"
          /\ UNCHANGED <<result, note_count, notes, noteStarts, countEnd>>
     ELSE Fail
  /\ UNCHANGED <<lines, terminated, edited, suffix, res0, res1>>

SkipComments ==
  /\ pc = "skip_comments" /\ result = "none"
  /\ LET r == many_comments(i) IN
     IF r.k = "Ok"
     THEN /\ i' = r.rest
          /\ pc' = "read_count"
          /\ UNCHANGED <<result, description, note_count, notes, noteStarts,
                         countEnd>>
     ELSE Fail
  /\ UNCHANGED <<lines, terminated, edited, suffix, res0, res1>>

ReadCount ==
  /\ pc = "read_count" /\ result = "none"
  /\ LET s == space0(i)
         n == IF s.k = "Ok" THEN num_u64(s.rest) ELSE s
     IN IF n.k = "Ok"
        THEN /\ i' = n.rest
             /\ note_count' = n.val
             /\ countEnd' = Pos(s.rest) + SpanDigits(s.rest)
             /\ pc' = "read_notes"
             /\ UNCHANGED <<result, description, notes, noteStarts>>
        ELSE Fail
  /\ UNCHANGED <<lines, terminated, edited, suffix, res0, res1>>

ReadNote ==
  /\ pc = "read_notes" /\ result = "none"
  /\ Len(notes) < note_count
  /\ LET m == many_comments(i)
         r == comments_note(i)
     IN /\ noteStarts' = IF m.k = "Ok" THEN Append(noteStarts, Pos(m.rest))
                         ELSE noteStarts
        /\ IF r.k = "Ok"
           THEN /\ i' = r.rest
                /\ notes' = Append(notes, r.val.note)
                /\ UNCHANGED <<result>>
           ELSE /\ result' = "Err"
                /\ UNCHANGED <<i, notes>>
  /\ UNCHANGED <<pc, description, note_count, countEnd>>
  /\ UNCHANGED <<lines, terminated, edited, suffix, res0, res1>>

(* a loop over the notes that may stop before the last one *)
Return_early ==
  /\ pc = "read_notes" /\ result = "none"
  /\ Len(notes) <= note_count
  /\ pc' = "done"
  /\ result' = "Ok"
  /\ UNCHANGED <<i, description, note_count, notes, noteStarts, countEnd>>
  /\ UNCHANGED <<lines, terminated, edited, suffix, res0, res1>>

Return ==
  /\ pc = "read_notes" /\ result = "none"
  /\ Len(notes) = note_count
  /\ pc' = "done"
  /\ result' = "Ok"
  /\ UNCHANGED <<i, description, note_count, notes, noteStarts, countEnd>>
  /\ UNCHANGED <<lines, terminated, edited, suffix, res0, res1>>

Next ==
  \/ SkipLeadingComments
  \/ ReadDescription
  \/ SkipComments
  \/ ReadCount
  \/ ReadNote
  \/ Return

Spec == Init /\ [][Next]_vars

(* the stepped parser ends where parse_scala ends *)
StepsAgree ==
  result # "none" =>
    LET r == parse_scala(Text) IN
    /\ (result = "Ok") = (r.k = "Ok")
    /\ result = "Ok" =>
         /\ r.rest = i
         /\ r.val = [description |-> description, notes |-> notes]

(***************************************************************************)
(* SpecComments: from_str on an input and on the same input with           *)
(* newline-terminated comment lines inserted before, or removed from       *)
(* before, any of its lines.                                               *)
(***************************************************************************)
InsertAt(ls, k, l) == SubSeq(ls, 1, k - 1) \o <<l>> \o SubSeq(ls, k, Len(ls))

RemoveAt(ls, k) == SubSeq(ls, 1, k - 1) \o SubSeq(ls, k + 1, Len(ls))

InitComments ==
  /\ lines \in InputLines(MaxEditLines)
  /\ terminated \in BOOLEAN
  /\ Start
  /\ edited = lines
  /\ suffix = <<>>
  /\ res0 = <<>>
  /\ res1 = <<>>

InsertComment ==
  /\ res1 = <<>>
  /\ Len(edited) < Len(lines) + MaxInserted
  /\ \E k \in 1..Len(edited) : edited' = InsertAt(edited, k, CommentLine)
  /\ UNCHANGED <<lines, terminated, i, pc, result, description, note_count,
                 notes, noteStarts, countEnd, suffix, res0, res1>>

RemoveComment ==
  /\ res1 = <<>>
  /\ \E k \in 1..Len(edited) :
       /\ edited[k] = CommentLine
       /\ k < Len(edited) \/ terminated
       /\ edited' = RemoveAt(edited, k)
  /\ UNCHANGED <<lines, terminated, i, pc, result, description, note_count,
                 notes, noteStarts, countEnd, suffix, res0, res1>>

CompareComments ==
  /\ res1 = <<>>
  /\ res0' = <<from_str(Text)>>
  /\ res1' = <<from_str(Flatten(edited, terminated))>>
  /\ UNCHANGED <<lines, terminated, i, pc, result, description, note_count,
                 notes, noteStarts, countEnd, edited, suffix>>

NextComments == InsertComment \/ RemoveComment \/ CompareComments

SpecComments == InitComments /\ [][NextComments]_vars

(***************************************************************************)
(* SpecTrailing: from_str on an input it accepts and on the same input     *)
(* followed by further bytes.  The second element of res0, res1 is what    *)
(* parse_scala returned, with the input it left.                           *)
(***************************************************************************)
TrailingBytes == {"!", "2", "/", NL}

TrailingForms ==
  { <<"a", "b", "c">>, <<"0">>, <<"2">>, <<"3", "/", "2">>,
    <<"1", ".", "5">> }

InitTrailing ==
  /\ lines \in SeqsUpTo(TrailingForms, MaxEditLines)
  /\ terminated \in BOOLEAN
  /\ parse_scala(Text).k = "Ok"
  /\ Start
  /\ edited = <<>>
  /\ suffix = <<>>
  /\ res0 = <<>>
  /\ res1 = <<>>

AppendByte ==
  /\ res1 = <<>>
  /\ Len(suffix) < MaxSuffix
  /\ \E c \in TrailingBytes : suffix' = Append(suffix, c)
  /\ UNCHANGED <<lines, terminated, i, pc, result, description, note_count,
                 notes, noteStarts, countEnd, edited, res0, res1>>

CompareTrailing ==
  /\ res1 = <<>>
  /\ res0' = <<from_str(Text), parse_scala(Text)>>
  /\ res1' = <<from_str(Text \o suffix), parse_scala(Text \o suffix)>>
  /\ UNCHANGED <<lines, terminated, i, pc, result, description, note_count,
                 notes, noteStarts, countEnd, edited, suffix>>

NextTrailing == AppendByte \/ CompareTrailing

SpecTrailing == InitTrailing /\ [][NextTrailing]_vars

(***************************************************************************)
(* The file the input was written as: its lines that are not comments are, *)
(* in order, the description line, the count line and the interval lines.  *)
(***************************************************************************)
RECURSIVE ContentIdx(_, _)
ContentIdx(ls, k) ==
  IF k > Len(ls) THEN <<>>
  ELSE IF ls[k] = CommentLine THEN ContentIdx(ls, k + 1)
  ELSE <<k>> \o ContentIdx(ls, k + 1)

Content == ContentIdx(lines, 1)

HasNewline(k) == k < Len(lines) \/ terminated

(* the lines that are an unsigned integer, after optional whitespace *)
IsCountLine(l) == l \in {<<"0">>, <<"2">>, <<"3">>, <<" ", "2">>}

(* the lines that start with one, after optional whitespace *)
StartsWithUnsigned(l) ==
  IsCountLine(l) \/ l \in {<<"3", "/", "2">>, <<"1", ".", "5">>}

(* the unsigned integer literal such a line starts with *)
CountOf(l) ==
  CASE l = <<"0">> -> 0 [] l = <<"2">> -> 2 [] l = <<"3">> -> 3
    [] l = <<" ", "2">> -> 2 [] l = <<"3", "/", "2">> -> 3
    [] l = <<"1", ".", "5">> -> 1

HasCountLine == Len(Content) >= 2 /\ IsCountLine(lines[Content[2]])

Declared == CountOf(lines[Content[2]])

NumIntervalLines == Len(Content) - 2

IntervalLine(j) == lines[Content[j + 2]]

RatioLine == <<"3", "/", "2">>

NegativeRatioLine == <<"-", "3", "/", "2">>

DecimalLines == {<<"0">>, <<"2">>, <<"3">>, <<"1", ".", "5">>, <<" ", "2">>}

IsIntervalLine(l) == l = RatioLine \/ l \in DecimalLines

(* the value written on an interval line *)
Written(l) ==
  CASE l = RatioLine -> Ratio(3, 2)
    [] l = <<"0">> -> Cents([m |-> 0, e |-> 0])
    [] l = <<"2">> -> Cents([m |-> 2, e |-> 0])
    [] l = <<"3">> -> Cents([m |-> 3, e |-> 0])
    [] l = <<" ", "2">> -> Cents([m |-> 2, e |-> 0])
    [] l = <<"1", ".", "5">> -> Cents([m |-> 15, e |-> 0 - 1])

RECURSIVE LineStart(_)
LineStart(k) == IF k = 1 THEN 0 ELSE LineStart(k - 1) + Len(lines[k - 1]) + 1

(* the line of the input that holds offset p *)
LineAt(p) ==
  lines[CHOOSE k \in 1..Len(lines) :
          LineStart(k) <= p /\ p < LineStart(k) + Len(lines[k]) + 1]

(***************************************************************************)
(* The claims.                                                             *)
(***************************************************************************)
WellFormed ==
  /\ HasCountLine
  /\ HasNewline(Content[2])
  /\ NumIntervalLines >= Declared
  /\ \A j \in 1..Declared :
       IsIntervalLine(IntervalLine(j)) /\ HasNewline(Content[j + 2])

(* C1: on a description line, a count line holding N and at least N       *)
(* newline-terminated interval lines, from_str succeeds and the i-th note  *)
(* is the value written on the i-th interval line after the count line.    *)
C1_NotesAreTheIntervalLines ==
  (WellFormed /\ result # "none") =>
    /\ result = "Ok"
    /\ Len(notes) = Declared
    /\ \A j \in 1..Declared : notes[j] = Written(IntervalLine(j))

(* C2: a line <uint>/<uint> handed to note comes out as Ratio with that    *)
(* numerator and denominator, a bare signed decimal comes out as Cents.    *)
C2_Disambiguation ==
  \A j \in 1..Len(notes) :
    LET l == LineAt(noteStarts[j]) IN
    /\ l = RatioLine => notes[j] = Ratio(3, 2)
    /\ l \in DecimalLines => notes[j] = Written(l)

(* C3: when from_str returns Ok, the number of notes is the unsigned       *)
(* integer literal read from the note-count line.                          *)
C3_LenIsCount ==
  result = "Ok" =>
    /\ Len(Content) >= 2
    /\ StartsWithUnsigned(lines[Content[2]])
    /\ note_count = CountOf(lines[Content[2]])
    /\ Len(notes) = note_count

C3_Witness ==
  /\ result = "Ok"
  /\ Len(notes) = 3
  /\ lines[Content[2]] = <<"3">>

(* C4: a count line declaring N with fewer than N interval lines after it  *)
(* makes from_str return Err.                                              *)
C4_TooFewIntervalsFails ==
  (HasCountLine /\ NumIntervalLines < Declared /\ result # "none") =>
    result = "Err"

(* C5: an interval line -3/2 makes from_str return Err, never Ok with a    *)
(* note for that line.                                                     *)
C5_NegativeRatioFails ==
  result = "Ok" =>
    /\ \A j \in 1..Len(noteStarts) :
         LineAt(noteStarts[j]) # NegativeRatioLine
    /\ ~(/\ HasCountLine
         /\ \E j \in 1..Declared :
              j <= NumIntervalLines /\ IntervalLine(j) = NegativeRatioLine)

(* C6: inserting or removing newline-terminated comment lines before the   *)
(* lines of an input does not change what from_str returns.                *)
C6_CommentTransparency ==
  res1 # <<>> => res0[1] = res1[1]

C6_Witness ==
  /\ res1 # <<>>
  /\ Len(edited) > Len(lines)
  /\ res0[1].ok
  /\ Len(res0[1].scale.notes) = 2

(* C7: when the count line does not start, after optional whitespace, with *)
(* an unsigned integer, from_str fails in the read-count state and note is *)
(* never invoked.                                                          *)
BadCountLine == Len(Content) >= 2 /\ ~StartsWithUnsigned(lines[Content[2]])

C7_BadCountFailsBeforeNotes ==
  BadCountLine =>
    /\ result # "Ok"
    /\ pc \notin {"read_notes", "done"}
    /\ noteStarts = <<>>
    /\ notes = <<>>
    /\ result = "Err" => pc = "read_count"

C7_Witness ==
  /\ BadCountLine
  /\ NumIntervalLines >= 1
  /\ result = "Err"
  /\ pc = "read_count"

(* C8: when from_str succeeds on an input, it succeeds with the same       *)
(* description and notes on the input followed by further bytes, which are *)
(* left unconsumed.                                                        *)
C8_NoTrailingContentError ==
  (res1 # <<>> /\ res0[1].ok) =>
    /\ res1[1] = res0[1]
    /\ res1[2].rest = res0[2].rest \o suffix

C8_Witness ==
  /\ res1 # <<>>
  /\ res0[1].ok
  /\ Len(suffix) = MaxSuffix
  /\ Len(res0[1].scale.notes) = 2

(* C9: the states are passed in order and text matched by one state, the   *)
(* count literal in particular, is consumed and not read by a later one.   *)
C9_CountLiteralNotReadAgain ==
  /\ pc \in {"read_notes", "done"} => Pos(i) >= countEnd
  /\ \A j \in 1..Len(noteStarts) : noteStarts[j] >= countEnd

(* C10: take_line fails on input without '\n', and from_str returns Err    *)
(* when the description line, or the last of the N declared interval       *)
(* lines, ends at the end of input without '\n'.                           *)
DescriptionOpen == Len(Content) >= 1 /\ ~HasNewline(Content[1])

LastDeclaredOpen ==
  /\ HasCountLine
  /\ Declared >= 1
  /\ NumIntervalLines >= Declared
  /\ ~HasNewline(Content[Declared + 2])

C10_OpenLastLineFails ==
  /\ (\A k \in 1..Len(i) : i[k] # NL) => take_line(i).k # "Ok"
  /\ (result # "none" /\ (DescriptionOpen \/ LastDeclaredOpen)) =>
       result = "Err"

====
